---------------------------- MODULE Spec2Model ----------------------------
(***************************************************************************)
(* Vehicle API (app/main.py, app/schemas.py, app/models.py,                *)
(* app/database.py): five HTTP handlers over one table keyed by vin.       *)
(*                                                                         *)
(* Every request runs in its own session (get_db).  A handler is a chain   *)
(* of store round trips (query, commit, refresh); each round trip is one   *)
(* atomic step here and the steps of concurrent requests interleave.       *)
(*                                                                         *)
(* Values.  A VIN is a sequence of one-character strings.  Every other     *)
(* JSON / column value is an Optional: <<>> is None (JSON null, SQL NULL)  *)
(* and <<x>> is the value x.  A request body is a function from the field  *)
(* names present in the JSON object to such values.  purchase_price is a   *)
(* float in the code and an integer here.                                  *)
(***************************************************************************)
EXTENDS Integers, Sequences, FiniteSets, TLC

\* number of requests that can be in flight at the same time
NumProcs == 2

Procs == 1..NumProcs

None == <<>>

Some(x) == <<x>>

(***************************************************************************)
(* Strings: str.upper() and str.strip()                                    *)
(***************************************************************************)
LowerCase == <<"a","b","c","d","e","f","g","h","i","j","k","l","m",
               "n","o","p","q","r","s","t","u","v","w","x","y","z">>

UpperCase == <<"A","B","C","D","E","F","G","H","I","J","K","L","M",
               "N","O","P","Q","R","S","T","U","V","W","X","Y","Z">>

Whitespace == {" ", "\t"}

upper_char(c) ==
    IF \E i \in DOMAIN LowerCase : LowerCase[i] = c
    THEN UpperCase[CHOOSE i \in DOMAIN LowerCase : LowerCase[i] = c]
    ELSE c

upper(s) == [i \in DOMAIN s |-> upper_char(s[i])]

RECURSIVE lstrip(_)
lstrip(s) ==
    IF s = <<>> \/ s[1] \notin Whitespace THEN s ELSE lstrip(Tail(s))

RECURSIVE rstrip(_)
rstrip(s) ==
    IF s = <<>> \/ s[Len(s)] \notin Whitespace THEN s
    ELSE rstrip(SubSeq(s, 1, Len(s) - 1))

strip(s) == rstrip(lstrip(s))

\* main.py: vin.upper().strip()
NormalizeNoStrip(vin) == upper(vin)

normalize_vin(vin) == strip(upper(vin))

(***************************************************************************)
(* Entity model (models.py) and the store's structural constraints         *)
(***************************************************************************)
Fields == {"manufacturer_name", "description", "horse_power", "model_name",
           "model_year", "purchase_price", "fuel_type"}

Columns == Fields \cup {"vin"}

\* Column(..., nullable=False); the primary key is not nullable either
NotNullColumns == Columns \ {"description"}

\* Vehicle(vin=..., manufacturer_name=..., ...): the mapped object
Vehicle(vin, manufacturer_name, description, horse_power, model_name, model_year, purchase_price, fuel_type) ==
    [vin |-> vin, manufacturer_name |-> manufacturer_name,
     description |-> description, horse_power |-> horse_power,
     model_name |-> model_name, model_year |-> model_year,
     purchase_price |-> purchase_price, fuel_type |-> fuel_type]

(***************************************************************************)
(* Validation layer (schemas.py).  An error is the pydantic error type;    *)
(* Ok means the value passes.                                              *)
(***************************************************************************)
Ok == "ok"

\* str with Field(min_length=, max_length=)
StrError(v, min_length, max_length) ==
    IF v = None THEN "string_type"
    ELSE IF Len(v[1]) < min_length THEN "string_too_short"
    ELSE IF Len(v[1]) > max_length THEN "string_too_long"
    ELSE Ok

\* int / float with Field(gt=)
GtError(v, gt) ==
    IF v = None THEN "int_type"
    ELSE IF v[1] > gt THEN Ok ELSE "greater_than"

\* int with Field(ge=, le=)
RangeError(v, ge, le) ==
    IF v = None THEN "int_type"
    ELSE IF v[1] < ge THEN "greater_than_equal"
    ELSE IF v[1] > le THEN "less_than_equal"
    ELSE Ok

\* VehicleBase: the constraint of each declared field
VehicleBase(f, v) ==
    CASE f = "manufacturer_name" -> StrError(v, 1, 100)
      [] f = "description"       -> IF v = None THEN Ok ELSE StrError(v, 0, 500)
      [] f = "horse_power"       -> GtError(v, 0)
      [] f = "model_name"        -> StrError(v, 1, 100)
      [] f = "model_year"        -> RangeError(v, 1900, 2100)
      [] f = "purchase_price"    -> GtError(v, 0)
      [] f = "fuel_type"         -> StrError(v, 1, 50)

\* VehicleCreate.vin: Field(min_length=1, max_length=17) on the raw input,
\* then the validator validate_vin
validate_vin(v) ==
    IF StrError(v, 1, 17) # Ok THEN StrError(v, 1, 17)
    ELSE IF strip(v[1]) = <<>> THEN "value_error"
    ELSE Ok

\* VehicleCreate(**payload): the error of field f, required unless description
VehicleCreateError(payload, f) ==
    IF f \notin DOMAIN payload
    THEN IF f = "description" THEN Ok ELSE "missing"
    ELSE IF f = "vin" THEN validate_vin(payload[f])
    ELSE VehicleBase(f, payload[f])

\* VehicleUpdate(**body): every field Optional, None passes
VehicleUpdateError(body, f) ==
    IF f \notin DOMAIN body \/ body[f] = None THEN Ok
    ELSE VehicleBase(f, body[f])

\* handle_validation_error: one entry per invalid field
CreateErrors(payload) ==
    [f \in {g \in Columns : VehicleCreateError(payload, g) # Ok}
        |-> VehicleCreateError(payload, f)]

UpdateErrors(body) ==
    [f \in {g \in Fields : VehicleUpdateError(body, g) # Ok}
        |-> VehicleUpdateError(body, f)]

\* the validated VehicleCreate: vin as validate_vin returns it, description
\* defaulting to None
VehicleCreate(payload) ==
    [f \in Columns |->
        IF f = "vin" THEN strip(upper(payload[f][1]))
        ELSE IF f \in DOMAIN payload THEN payload[f] ELSE None]

\* vehicle_update.model_dump(exclude_unset=True): the declared fields that
\* the body sets; keys VehicleUpdate does not declare (vin) are dropped
DumpWithVin(body) ==
    [f \in DOMAIN body |-> IF f = "vin" THEN body[f][1] ELSE body[f]]

model_dump(body) == [f \in DOMAIN body \cap Fields |-> body[f]]

(***************************************************************************)
(* Responses                                                               *)
(***************************************************************************)
JSONResponse(status_code, content) == [status |-> status_code, body |-> content]

\* raise HTTPException(status_code, detail): the framework's handler answers
\* {"detail": detail}
HTTPExceptionTopLevel(status_code, detail) == JSONResponse(status_code, detail)

HTTPException(status_code, detail) ==
    JSONResponse(status_code, [detail |-> detail])

\* an exception no handler catches
ServerError == JSONResponse(500, [text |-> "Internal Server Error"])

NoResponse == JSONResponse(0, None)

AlreadyExists == [errors |-> [vin |-> "Vehicle with this VIN already exists"]]

WouldViolate == [errors |-> [vin |-> "Update would violate unique constraint"]]

NotFound == "Vehicle not found"

(***************************************************************************)
(* Request inputs: the payloads of tests/test_vehicles.py and variants     *)
(***************************************************************************)
\* "1HGBH41JXMN109186" (17 characters) and its lower-case spelling
VinHonda == <<"1","H","G","B","H","4","1","J","X","M","N","1","0","9","1","8","6">>

VinHondaLower == <<"1","h","g","b","h","4","1","j","x","m","n","1","0","9","1","8","6">>

\* "INVALID123" and " invalid123 "
VinShort == <<"I","N","V","A","L","I","D","1","2","3">>

VinShortPadded == <<" ","i","n","v","a","l","i","d","1","2","3"," ">>

\* VIN spellings sent in a create body: also too long (18), empty, blank
CreateVins == {VinHonda, VinHondaLower, VinHondaLower \o <<" ">>, <<>>, <<" ">>}

\* VIN spellings sent as the path parameter of get / update / delete
PathVins == {VinHonda, VinHondaLower, VinShortPadded}

sample_vehicle(vin) ==
    [vin |-> Some(vin), manufacturer_name |-> Some("Honda"),
     description |-> Some("A reliable sedan"), horse_power |-> Some(180),
     model_name |-> Some("Accord"), model_year |-> Some(2020),
     purchase_price |-> Some(25000), fuel_type |-> Some("Gasoline")]

\* the same payload with description left out
no_description(vin) ==
    [f \in Columns \ {"description"} |-> sample_vehicle(vin)[f]]

invalid_vehicle ==
    [sample_vehicle(VinHonda) EXCEPT !.horse_power = Some(-10),
        !.model_year = Some(1800), !.purchase_price = Some(-1000)]

incomplete_vehicle ==
    [vin |-> Some(VinHonda), manufacturer_name |-> Some("Honda")]

CreatePayloads ==
    {sample_vehicle(v) : v \in CreateVins}
        \cup {no_description(VinShort), no_description(VinShortPadded),
              invalid_vehicle, incomplete_vehicle}

\* PUT bodies: the test's, the sample's own values, a null for a NOT NULL
\* column, a null for description in a body that also names vin, and an
\* invalid value
UpdateBodies ==
    { [horse_power |-> Some(200), purchase_price |-> Some(27000)],
      [horse_power |-> Some(180), purchase_price |-> Some(25000)],
      [horse_power |-> Some(200), manufacturer_name |-> None],
      [vin |-> Some(VinHondaLower), description |-> None],
      [horse_power |-> Some(-10)] }

(***************************************************************************)
(* State                                                                   *)
(***************************************************************************)
VARIABLES
    store,            \* the vehicles table: a set of rows
    pc,               \* pc[p]: where request p's handler is
    req,              \* req[p]: the operation, the VIN as the client sent it, the body
    vehicle,          \* vehicle[p]: the object held by p's session, or None
    committed_state,  \* committed_state[p]: loaded values of the attributes set
    resp              \* resp[p]: the response p's client received

vars == <<store, pc, req, vehicle, committed_state, resp>>

NoRequest == [op |-> "none", vin |-> <<>>, body |-> <<>>]

Request(op, vin, body) == [op |-> op, vin |-> vin, body |-> body]

\* the request enters its handler
Receive(p, op, vin, body) ==
    /\ pc[p] = "idle"
    /\ req' = [req EXCEPT ![p] = Request(op, vin, body)]

\* db.query(Vehicle).filter(Vehicle.vin == vin_upper): the matching rows
Query(rows, vin_upper) == {r \in rows : r.vin = vin_upper}

\* .first()
first(rows) == IF rows = {} THEN None ELSE Some(CHOOSE r \in rows : TRUE)

Init ==
    /\ store = {}
    /\ pc = [p \in Procs |-> "idle"]
    /\ req = [p \in Procs |-> NoRequest]
    /\ vehicle = [p \in Procs |-> None]
    /\ committed_state = [p \in Procs |-> <<>>]
    /\ resp = [p \in Procs |-> NoResponse]

\* the handler returns or raises: the response goes out and get_db closes
\* the session, dropping what it held
Respond(p, response) ==
    /\ pc' = [pc EXCEPT ![p] = "done"]
    /\ resp' = [resp EXCEPT ![p] = response]
    /\ vehicle' = [vehicle EXCEPT ![p] = None]
    /\ committed_state' = [committed_state EXCEPT ![p] = <<>>]

\* expire_on_commit: after db.commit() the object keeps its identity only
Expired(obj) == [vin |-> obj.vin]

\* the handler goes on to its next store round trip
Goto(p, label) ==
    /\ pc' = [pc EXCEPT ![p] = label]
    /\ UNCHANGED resp

(***************************************************************************)
(* POST /vehicle                                                           *)
(***************************************************************************)
\* the body does not parse: handle_validation_error answers 400
CreateMalformed(p) ==
    /\ Receive(p, "create", <<>>, <<>>)
    /\ Respond(p, JSONResponse(400, [detail |-> "Invalid JSON format"]))
    /\ UNCHANGED store

\* an INSERT the store refuses: primary key taken, or NULL in a NOT NULL column
InsertNoCheck(rows, new) == FALSE

InsertViolates(rows, new) ==
    \/ \E r \in rows : r.vin = new.vin
    \/ \E k \in NotNullColumns \ {"vin"} : new[k] = None

\* create_vehicle up to the duplicate pre-check
CreateVehicle(p, payload) ==
    /\ Receive(p, "create",
            IF "vin" \in DOMAIN payload THEN payload.vin[1] ELSE <<>>, payload)
    /\ UNCHANGED store
    /\ IF DOMAIN CreateErrors(payload) # {}
       THEN Respond(p, JSONResponse(422, [errors |-> CreateErrors(payload)]))
       ELSE LET v == VehicleCreate(payload)
                vin_upper == normalize_vin(v.vin)
                existing == first(Query(store, vin_upper))
            IN  IF existing # None
                THEN Respond(p, HTTPException(422, AlreadyExists))
                ELSE /\ pc' = [pc EXCEPT ![p] = "create_commit"]
                     /\ vehicle' = [vehicle EXCEPT ![p] =
                            Some(Vehicle(vin_upper, v.manufacturer_name,
                                v.description, v.horse_power, v.model_name,
                                v.model_year, v.purchase_price, v.fuel_type))]
                     /\ UNCHANGED <<committed_state, resp>>

\* db.add(new_vehicle); db.commit(), with the IntegrityError branch
CreateCommit(p) ==
    /\ pc[p] = "create_commit"
    /\ UNCHANGED req
    /\ LET new_vehicle == vehicle[p][1]
       IN  IF InsertViolates(store, new_vehicle)
           THEN /\ Respond(p, HTTPException(422, AlreadyExists))
                /\ UNCHANGED store
           ELSE /\ store' = store \cup {new_vehicle}
                /\ Goto(p, "create_refresh")
                /\ vehicle' = [vehicle EXCEPT ![p] = Some(Expired(new_vehicle))]
                /\ UNCHANGED committed_state

\* db.refresh(new_vehicle); return new_vehicle
CreateRefresh(p) ==
    /\ pc[p] = "create_refresh"
    /\ UNCHANGED req
    /\ UNCHANGED store
    /\ LET row == first(Query(store, vehicle[p][1].vin))
       IN  IF row = None
           THEN Respond(p, ServerError)
           ELSE Respond(p, JSONResponse(201, row[1]))

(***************************************************************************)
(* GET /vehicle and GET /vehicle/{vin}                                     *)
(***************************************************************************)
\* list_vehicles: db.query(Vehicle).all(), order unspecified
ListVehicles(p) ==
    /\ Receive(p, "list", <<>>, <<>>)
    /\ Respond(p, JSONResponse(200, store))
    /\ UNCHANGED store

\* get_vehicle
GetVehicle(p, vin) ==
    /\ Receive(p, "get", vin, <<>>)
    /\ UNCHANGED store
    /\ LET vin_upper == normalize_vin(vin)
           found == first(Query(store, vin_upper))
       IN  IF found = None
           THEN Respond(p, HTTPException(404, NotFound))
           ELSE Respond(p, JSONResponse(200, found[1]))

(***************************************************************************)
(* PUT /vehicle/{vin}                                                      *)
(***************************************************************************)
\* update_vehicle up to the setattr loop
UpdateVehicle(p, vin, body) ==
    /\ Receive(p, "update", vin, body)
    /\ UNCHANGED store
    /\ IF DOMAIN UpdateErrors(body) # {}
       THEN Respond(p, JSONResponse(422, [errors |-> UpdateErrors(body)]))
       ELSE LET vin_upper == normalize_vin(vin)
                found == first(Query(store, vin_upper))
                updates == model_dump(body)
            IN  IF found = None
                THEN Respond(p, HTTPException(404, NotFound))
                ELSE /\ pc' = [pc EXCEPT ![p] = "update_commit"]
                     /\ vehicle' = [vehicle EXCEPT ![p] =
                            Some([k \in Columns |->
                                IF k \in DOMAIN updates THEN updates[k]
                                ELSE found[1][k]])]
                     /\ committed_state' = [committed_state EXCEPT ![p] =
                            [k \in DOMAIN updates |-> found[1][k]]]
                     /\ UNCHANGED resp

\* the attributes the flush writes: those set to a value other than the loaded
\* one (the unit of work skips an attribute whose value did not change)
ChangedColumns(obj, loaded) == {k \in DOMAIN loaded : obj[k] # loaded[k]}

\* the primary key the UPDATE's WHERE clause names
IdentityKey(obj, loaded) ==
    IF "vin" \in DOMAIN loaded THEN loaded["vin"] ELSE obj.vin

\* the row an UPDATE of the changed columns leaves
UpdatedRow(row, obj, changed) ==
    [k \in Columns |-> IF k \in changed THEN obj[k] ELSE row[k]]

\* an UPDATE the store refuses: NULL in a NOT NULL column, primary key taken
UpdateNoCheck(rows, old, new) == FALSE

UpdateViolates(rows, old, new) ==
    \/ \E k \in NotNullColumns \ {"vin"} : new[k] = None
    \/ \E r \in rows \ {old} : r.vin = new.vin

\* db.rollback() after the refused UPDATE: the table as it was
RollbackPartial(rows, old, new) ==
    (rows \ {old}) \cup
        {[k \in Columns |-> IF new[k] = None THEN old[k] ELSE new[k]]}

Rollback(rows, old, new) == rows

\* db.commit() of update_vehicle, with the IntegrityError branch
UpdateCommit(p) ==
    /\ pc[p] = "update_commit"
    /\ UNCHANGED req
    /\ LET obj == vehicle[p][1]
           changed == ChangedColumns(obj, committed_state[p])
           rows == Query(store, IdentityKey(obj, committed_state[p]))
       IN  IF changed = {}
           THEN /\ Goto(p, "update_refresh")
                /\ vehicle' = [vehicle EXCEPT ![p] = Some(Expired(obj))]
                /\ committed_state' = [committed_state EXCEPT ![p] = <<>>]
                /\ UNCHANGED store
           ELSE IF rows = {}
           THEN /\ Respond(p, ServerError)
                /\ UNCHANGED store
           ELSE LET old == CHOOSE r \in rows : TRUE
                    new == UpdatedRow(old, obj, changed)
                IN  IF UpdateViolates(store, old, new)
                    THEN /\ Respond(p, HTTPException(422, WouldViolate))
                         /\ store' = Rollback(store, old, new)
                    ELSE /\ store' = (store \ {old}) \cup {new}
                         /\ Goto(p, "update_refresh")
                         /\ vehicle' = [vehicle EXCEPT ![p] = Some(Expired(new))]
                         /\ committed_state' = [committed_state EXCEPT ![p] = <<>>]

\* db.refresh(vehicle); return vehicle
UpdateRefresh(p) ==
    /\ pc[p] = "update_refresh"
    /\ UNCHANGED req
    /\ UNCHANGED store
    /\ LET row == first(Query(store, vehicle[p][1].vin))
       IN  IF row = None
           THEN Respond(p, ServerError)
           ELSE Respond(p, JSONResponse(200, row[1]))

(***************************************************************************)
(* DELETE /vehicle/{vin}                                                   *)
(***************************************************************************)
\* delete_vehicle up to db.delete(vehicle)
DeleteVehicle(p, vin) ==
    /\ Receive(p, "delete", vin, <<>>)
    /\ UNCHANGED store
    /\ LET vin_upper == normalize_vin(vin)
           found == first(Query(store, vin_upper))
       IN  IF found = None
           THEN Respond(p, HTTPException(404, NotFound))
           ELSE /\ pc' = [pc EXCEPT ![p] = "delete_commit"]
                /\ vehicle' = [vehicle EXCEPT ![p] = found]
                /\ UNCHANGED <<committed_state, resp>>

\* db.delete(vehicle), flushed as DELETE ... WHERE vin = :vin
DeleteNothing(rows, obj) == rows

Delete(rows, obj) == rows \ Query(rows, obj.vin)

\* db.commit(); return None.  A DELETE that matches no row is not an error:
\* the handler answers 204 either way
DeleteCommit(p) ==
    /\ pc[p] = "delete_commit"
    /\ UNCHANGED req
    /\ store' = Delete(store, vehicle[p][1])
    /\ Respond(p, JSONResponse(204, None))

\* the client takes the response; p is free for the next request
Return(p) ==
    /\ pc[p] = "done"
    /\ pc' = [pc EXCEPT ![p] = "idle"]
    /\ resp' = [resp EXCEPT ![p] = NoResponse]
    /\ req' = [req EXCEPT ![p] = NoRequest]
    /\ UNCHANGED <<store, vehicle, committed_state>>

Next ==
    \E p \in Procs :
        \/ CreateMalformed(p)
        \/ \E payload \in CreatePayloads : CreateVehicle(p, payload)
        \/ CreateCommit(p)
        \/ CreateRefresh(p)
        \/ ListVehicles(p)
        \/ \E vin \in PathVins : GetVehicle(p, vin)
        \/ \E vin \in PathVins, body \in UpdateBodies : UpdateVehicle(p, vin, body)
        \/ UpdateCommit(p)
        \/ UpdateRefresh(p)
        \/ \E vin \in PathVins : DeleteVehicle(p, vin)
        \/ DeleteCommit(p)
        \/ Return(p)

Spec == Init /\ [][Next]_vars

\* create requests only, one per client: the duplicate race of create_vehicle
NextCreate ==
    \E p \in Procs :
        \/ \E payload \in CreatePayloads : CreateVehicle(p, payload)
        \/ CreateCommit(p)
        \/ CreateRefresh(p)

SpecCreate == Init /\ [][NextCreate]_vars

(***************************************************************************)
(* Vocabulary of the properties, stated without the handlers' operators    *)
(***************************************************************************)
\* the same character up to letter case
SameLetter(a, b) ==
    \/ a = b
    \/ \E i \in DOMAIN LowerCase : {a, b} = {LowerCase[i], UpperCase[i]}

EqualIgnoringCase(x, y) ==
    /\ Len(x) = Len(y)
    /\ \A i \in 1..Len(x) : SameLetter(x[i], y[i])

\* non-empty, no lower-case letter, no whitespace at either end
IsCanonical(v) ==
    /\ v # <<>>
    /\ v[1] \notin Whitespace
    /\ v[Len(v)] \notin Whitespace
    /\ \A i \in 1..Len(v) : \A j \in DOMAIN LowerCase : v[i] # LowerCase[j]

\* the spelling w, upper-cased and trimmed, is the canonical VIN v
Names(w, v) ==
    /\ IsCanonical(v)
    /\ \E i, j \in 0..Len(w) :
        /\ i + j <= Len(w)
        /\ \A k \in 1..i : w[k] \in Whitespace
        /\ \A k \in (Len(w) - j + 1)..Len(w) : w[k] \in Whitespace
        /\ EqualIgnoringCase(SubSeq(w, i + 1, Len(w) - j), v)

CanonicalVins == {VinHonda, VinShort}

ValidCreate(r) == r.op = "create" /\ DOMAIN r.body # {} /\ DOMAIN CreateErrors(r.body) = {}

ValidUpdate(r) == r.op = "update" /\ DOMAIN UpdateErrors(r.body) = {}

Done(p) == pc[p] = "done"

\* p's handler answers in this step
Answers(p) == pc[p] # "done" /\ pc'[p] = "done"

ErrorStatus == {400, 404, 422}

(***************************************************************************)
(* C1.  Among the valid create requests for one canonical VIN, issued      *)
(* against a store that does not hold it, exactly one is answered 201 and  *)
(* every other one 422, whatever the order of their pre-checks and commits *)
(***************************************************************************)
C1_ExactlyOneCreateSucceeds ==
    (\A p \in Procs : Done(p)) =>
        \A v \in CanonicalVins :
            LET askers == {p \in Procs : ValidCreate(req[p]) /\ Names(req[p].vin, v)}
                winners == {p \in askers : resp[p].status = 201}
            IN  askers # {} =>
                    /\ Cardinality(winners) = 1
                    /\ \A p \in winners : resp[p].body.vin = v
                    /\ \A p \in askers \ winners : resp[p].status = 422

\* two creates of one VIN in different spellings, one answered 201, one 422
C1_Witness ==
    \E p, q \in Procs :
        /\ Done(p) /\ Done(q)
        /\ req[p].op = "create" /\ req[p].vin = VinHonda
        /\ req[q].op = "create" /\ req[q].vin = VinHondaLower
        /\ resp[p].status = 422 /\ resp[q].status = 201

(***************************************************************************)
(* C2.  Every stored vin is canonical (non-empty, upper case, trimmed) and *)
(* no two stored rows have VINs that are equal ignoring case               *)
(***************************************************************************)
C2_StoredVinsCanonicalAndUnique ==
    /\ \A r \in store : IsCanonical(r.vin)
    /\ \A r1, r2 \in store : EqualIgnoringCase(r1.vin, r2.vin) => r1 = r2

\* two rows stored, one of them created from a padded lower-case spelling
C2_Witness ==
    /\ Cardinality(store) = 2
    /\ \E p \in Procs :
        /\ Done(p) /\ req[p].op = "create" /\ req[p].vin = VinShortPadded
        /\ resp[p].status = 201

(***************************************************************************)
(* C3.  The commit of an update sets every field present in the body to    *)
(* the supplied value, keeps every omitted field, the vin and every other  *)
(* row; the entity returned with 200 is the stored row                     *)
(***************************************************************************)
C3_UpdateSetsSuppliedFields ==
    [][\A p \in Procs :
        /\ (pc[p] = "update_commit" /\ pc'[p] = "update_refresh") =>
            \A old \in Query(store, vehicle[p][1].vin) :
                store' = (store \ {old}) \cup
                    {[k \in Columns |->
                        IF k \in DOMAIN req[p].body \cap Fields
                        THEN req[p].body[k] ELSE old[k]]}
        /\ (pc[p] = "update_refresh" /\ Answers(p) /\ resp'[p].status = 200) =>
            /\ resp'[p].body \in store
            /\ resp'[p].body.vin = vehicle[p][1].vin]_vars

(***************************************************************************)
(* C4.  A path VIN in any spelling of a stored canonical VIN resolves to   *)
(* that row in get, update and delete, with the result the row decides,    *)
(* and to 404 when no stored VIN has that spelling; a create stores and    *)
(* returns the canonical form of the VIN it was sent                       *)
(***************************************************************************)
C4_NormalizationOnEveryPath ==
    [][\A p \in Procs :
        /\ (pc[p] = "idle" /\ pc'[p] # "idle") =>
            LET r == req'[p]
                matches == {x \in store : Names(r.vin, x.vin)}
            IN  /\ r.op = "get" =>
                    IF matches = {} THEN resp'[p].status = 404
                    ELSE resp'[p].status = 200 /\ resp'[p].body \in matches
                /\ r.op = "delete" =>
                    IF matches = {} THEN resp'[p].status = 404
                    ELSE /\ pc'[p] = "delete_commit"
                         /\ \E x \in matches : vehicle'[p] = Some(x)
                /\ ValidUpdate(r) =>
                    IF matches = {} THEN resp'[p].status = 404
                    ELSE /\ pc'[p] = "update_commit"
                         /\ \E x \in matches :
                            /\ vehicle'[p][1].vin = x.vin
                            /\ \A k \in Fields \ DOMAIN r.body :
                                vehicle'[p][1][k] = x[k]
        /\ (pc[p] = "create_commit" /\ pc'[p] = "create_refresh") =>
            \E x \in store' \ store : Names(req[p].vin, x.vin)
        /\ (pc[p] = "create_refresh" /\ resp'[p].status = 201) =>
            Names(req[p].vin, resp'[p].body.vin)]_vars

\* a get by a padded lower-case spelling answered with the canonical row
C4_Witness ==
    \E p \in Procs :
        /\ Done(p) /\ req[p].op = "get" /\ req[p].vin = VinShortPadded
        /\ resp[p].status = 200 /\ resp[p].body.vin = VinShort

(***************************************************************************)
(* C5.  An update whose body passes validation is never answered 422       *)
(***************************************************************************)
C5_UpdateNeverConflict ==
    \A p \in Procs : (Done(p) /\ ValidUpdate(req[p])) => resp[p].status # 422

C7_DuplicateBodyTopLevelErrors ==
    \A p \in Procs :
        (Done(p) /\ ValidCreate(req[p]) /\ resp[p].status = 422) =>
            /\ "errors" \in DOMAIN resp[p].body
            /\ "vin" \in DOMAIN resp[p].body.errors

\* C7 as amended: the errors object sits under the top-level key detail; a
\* field-level validation failure has errors at the top level
C7_DuplicateBodyUnderDetail ==
    \A p \in Procs :
        (Done(p) /\ req[p].op = "create" /\ DOMAIN req[p].body # {}
                /\ resp[p].status = 422) =>
            IF ValidCreate(req[p])
            THEN /\ DOMAIN resp[p].body = {"detail"}
                 /\ DOMAIN resp[p].body.detail = {"errors"}
                 /\ DOMAIN resp[p].body.detail.errors = {"vin"}
            ELSE /\ DOMAIN resp[p].body = {"errors"}
                 /\ DOMAIN resp[p].body.errors # {}

\* a create of a stored VIN in another spelling, answered 422
C7_Witness ==
    \E p \in Procs :
        /\ Done(p) /\ req[p].op = "create" /\ req[p].vin = VinHondaLower
        /\ resp[p].status = 422
        /\ \E r \in store : r.vin = VinHonda

(***************************************************************************)
(* C8.  The commit of a delete answers 204 and leaves no row with that     *)
(* VIN; from then on a get, update or delete of the VIN in any spelling    *)
(* finds nothing and answers 404 without touching the store, and list      *)
(* does not show it, until the commit of a create stores it again          *)
(***************************************************************************)
C8_DeleteIsPermanent ==
    [][\A p \in Procs :
        /\ (pc[p] = "delete_commit" /\ pc'[p] # pc[p]) =>
            /\ resp'[p].status = 204
            /\ Query(store', vehicle[p][1].vin) = {}
        /\ (pc[p] = "idle" /\ pc'[p] # "idle"
                /\ (req'[p].op \in {"get", "delete"} \/ ValidUpdate(req'[p]))
                /\ \A x \in store : ~Names(req'[p].vin, x.vin)) =>
            /\ resp'[p].status = 404
            /\ store' = store
        /\ (pc[p] = "idle" /\ req'[p].op = "list") => resp'[p].body = store
        /\ \A v \in CanonicalVins :
            (Query(store, v) = {} /\ Query(store', v) # {}) =>
                \E q \in Procs :
                    /\ pc[q] = "create_commit" /\ pc'[q] = "create_refresh"
                    /\ Names(req[q].vin, v)]_vars

\* a delete answered 204 and a get of the same VIN answered 404
C8_Witness ==
    \E p, q \in Procs :
        /\ Done(p) /\ req[p].op = "delete" /\ req[p].vin = VinHonda
        /\ resp[p].status = 204
        /\ Done(q) /\ req[q].op = "get" /\ req[q].vin = VinHondaLower
        /\ resp[q].status = 404
        /\ Query(store, VinHonda) = {}

(***************************************************************************)
(* C9.  Every stored vehicle satisfies the field constraints of the data   *)
(* model; only description may be absent                                   *)
(***************************************************************************)
ValidRow(r) ==
    /\ \A k \in {"manufacturer_name", "model_name", "fuel_type"} :
        r[k] # None /\ Len(r[k][1]) >= 1
    /\ r.horse_power # None /\ r.horse_power[1] > 0
    /\ r.model_year # None /\ r.model_year[1] >= 1900 /\ r.model_year[1] <= 2100
    /\ r.purchase_price # None /\ r.purchase_price[1] > 0

C9_StoredRowsValid == \A r \in store : ValidRow(r)

\* a row whose description an update has set to null
C9_Witness ==
    \E r \in store : r.vin = VinHonda /\ r.description = None

(***************************************************************************)
(* C10.  A delete whose commit finds no row to remove, the row having been *)
(* deleted since its lookup, is answered 404 and not 204                   *)
(***************************************************************************)
C10_SecondDeleteNotFound ==
    [][\A p \in Procs :
        (pc[p] = "delete_commit" /\ Answers(p)
                /\ Query(store, vehicle[p][1].vin) = {}) =>
            resp'[p].status = 404]_vars

=============================================================================
